---- MODULE Spec2Model ----
(***************************************************************************)
(* Model of PraSOAP/PracticaSOAP/main.py: a single POST /soap endpoint     *)
(* that parses a simplified SOAP payload, dispatches on the operation      *)
(* name and reads / rewrites the whole users.json collection.              *)
(***************************************************************************)
EXTENDS Integers, Sequences, FiniteSets, TLC

\* ------------------------------------------------------------------ bounds
\* CreateUser is only taken while the id it assigns stays <= MaxId.
MaxId == 2

\* ------------------------------------------------------- payload alphabet
\* A payload element is absent (<<>>), present with a value the field's
\* regex does not match (<<"bad">>: non-numeric id/age, empty name/email),
\* present with digits (<<"num", n>>) or with text (<<"txt", s>>).
Absent == <<>>
Bad == <<"bad">>
Num(n) == <<"num", n>>
Txt(s) == <<"txt", s>>

\* The <...Request> tag of a payload: one of the five operations, a tag
\* naming no operation, or no Request tag at all.
Operations == {"GetAllUsers", "GetUser", "CreateUser", "UpdateUser", "DeleteUser"}
NoTag == "-"
OtherTag == "Foo"

Xml(tag, id, name, email, age) ==
    [tag |-> tag, id |-> id, name |-> name, email |-> email, age |-> age]

\* The ids a client names: those CreateUser can assign within the bound.
AllIds == 1..MaxId

IdTokens == {Absent, Bad} \cup {Num(n) : n \in AllIds}

\* The name, email and age elements of a payload: each absent or taken from
\* one of two people.
People == {<<"ana", "a@x", 30>>, <<"leo", "l@x", 25>>}
FieldTokens ==
    {<<n, e, a>> \in UNION {{Absent, Txt(p[1])} \X {Absent, Txt(p[2])} \X {Absent, Num(p[3])}
                            : p \in People} : TRUE}

\* The payloads a client sends, per operation tag.
Payloads ==
    {Xml(t, Absent, Absent, Absent, Absent) : t \in {"GetAllUsers", NoTag, OtherTag}}
    \cup {Xml(t, i, Absent, Absent, Absent) : t \in {"GetUser", "DeleteUser"}, i \in IdTokens}
    \cup {Xml("CreateUser", Absent, f[1], f[2], f[3]) : f \in FieldTokens}
    \cup {Xml("CreateUser", Absent, Txt("ana"), Txt("a@x"), Bad)}
    \cup {Xml("UpdateUser", i, f[1], f[2], f[3]) : i \in IdTokens, f \in FieldTokens}

\* ------------------------------------------------------------ User model
\* class User(BaseModel): id: int, name: str, email: str, age: int
User(id, name, email, age) == [id |-> id, name |-> name, email |-> email, age |-> age]

\* ------------------------------------------------------- parse_soap_request
\* re.search(r'<(\w+)Request', xml): no match returns {} (no operation, no
\* params); otherwise each field is put into params only when its regex
\* matches (\d+ for id and age, [^<]+ for name and email).
ParamKeys(xml) ==
    {k \in {"id", "name", "email", "age"} :
        /\ xml.tag # NoTag
        /\ \/ k \in {"id", "age"} /\ xml[k] # Absent /\ xml[k][1] = "num"
           \/ k \in {"name", "email"} /\ xml[k] # Absent /\ xml[k][1] = "txt"}

parse_soap_request(xml) ==
    [operation |-> xml.tag,
     params |-> [k \in ParamKeys(xml) |-> xml[k][2]]]

\* params.get(k) is None exactly when k is no key of params.
Has(params, k) == k \in DOMAIN params

\* A missing id read with a default, params.get('id', 1).
IdIs_default(u, params) == u.id = IF Has(params, "id") THEN params["id"] ELSE 1

\* u.id == params.get('id'): an int never equals None.
IdIs(u, params) == Has(params, "id") /\ u.id = params["id"]

\* ------------------------------------------------------------ Record store
\* read_users: the stored list as User objects; write_users: the list as
\* stored. Both move whole collections.
read_users(stored) == stored
write_users(users) == users

Ids(users) == {users[i].id : i \in 1..Len(users)}

\* max([u.id for u in users], default=0)
MaxOf(S) == IF S = {} THEN 0 ELSE CHOOSE m \in S : \A x \in S : x <= m

\* ------------------------------------------------------- response fragments
\* user_to_xml: the <User> element with its four child elements.
user_to_xml(u) ==
    [tag |-> "User", id |-> u.id, name |-> u.name, email |-> u.email, age |-> u.age]

Fragment(tag, success, message, error, users) ==
    [tag |-> tag, success |-> success, message |-> message, error |-> error,
     users |-> users]

NoFragment == Fragment("", "", "", "", <<>>)

\* create_soap_response: the fragment inside soap:Envelope / soap:Body.
create_soap_response(body_content) ==
    [envelope |-> "soap:Envelope", body |-> body_content]

\* FastAPIResponse(content=soap_response, media_type="text/xml"): status 200.
FastAPIResponse(content) ==
    [status |-> 200, media_type |-> "text/xml", content |-> content]

\* An exception that leaves the handler: the framework answers 500 and no
\* envelope.
InternalServerError ==
    [status |-> 500, media_type |-> "text/plain",
     content |-> [envelope |-> "", body |-> NoFragment]]

\* The outcome of one branch of the dispatcher: the fragment it built (or the
\* exception it raised), and the list it passes to write_users, if any.
Outcome(raised, fragment, writes, users) ==
    [raised |-> raised, fragment |-> fragment, writes |-> writes, users |-> users]

\* ----------------------------------------------------- Operation dispatcher
GetAllUsers(users, params) ==
    Outcome(FALSE,
            Fragment("GetAllUsersResponse", "", "", "",
                     [i \in 1..Len(users) |-> user_to_xml(users[i])]),
            FALSE, users)

\* next((u for u in users if u.id == user_id), None)
Matches(users, params) == {i \in 1..Len(users) : IdIs(users[i], params)}
\* The last matching position instead of the first.
FirstMatch_last(users, params) ==
    CHOOSE i \in Matches(users, params) : \A j \in Matches(users, params) : i >= j

FirstMatch(users, params) ==
    CHOOSE i \in Matches(users, params) : \A j \in Matches(users, params) : i <= j

\* A lookup carrying the DeleteUser branch's filter and write_users call.
GetUser_consuming(users, params) ==
    LET keep(u) == ~IdIs(u, params)
    IN IF Matches(users, params) # {}
       THEN Outcome(FALSE,
                    Fragment("GetUserResponse", "", "", "",
                             <<user_to_xml(users[FirstMatch(users, params)])>>),
                    TRUE, SelectSeq(users, keep))
       ELSE Outcome(FALSE,
                    Fragment("GetUserResponse", "", "", "User not found", <<>>),
                    FALSE, users)

GetUser(users, params) ==
    IF Matches(users, params) # {}
    THEN Outcome(FALSE,
                 Fragment("GetUserResponse", "", "", "",
                          <<user_to_xml(users[FirstMatch(users, params)])>>),
                 FALSE, users)
    ELSE Outcome(FALSE,
                 Fragment("GetUserResponse", "", "", "User not found", <<>>),
                 FALSE, users)

\* User(id=new_id, name=str(params.get('name')), email=params.get('email'),
\* age=params.get('age')): str(None) is the text "None"; the model rejects
\* None for email: str and for age: int with a ValidationError.
UserValidates(params) == Has(params, "email") /\ Has(params, "age")

\* A next id taken from the number of records instead of the largest id.
NewId_count(users) == Len(users) + 1

NewId(users) == MaxOf(Ids(users)) + 1

\* The name and email arguments in each other's place.
NewUser_swapped(users, params) ==
    User(NewId(users),
         params["email"],
         IF Has(params, "name") THEN params["name"] ELSE "None",
         params["age"])

NewUser(users, params) ==
    User(NewId(users),
         IF Has(params, "name") THEN params["name"] ELSE "None",
         params["email"],
         params["age"])

\* A User model with optional fields: a missing email or age is stored empty
\* and the request is answered with success.
CreateUser_lenient(users, params) ==
    LET new_user == User(NewId(users),
                         IF Has(params, "name") THEN params["name"] ELSE "None",
                         IF Has(params, "email") THEN params["email"] ELSE "",
                         IF Has(params, "age") THEN params["age"] ELSE 0)
    IN Outcome(FALSE,
               Fragment("CreateUserResponse", "true", "", "",
                        <<user_to_xml(new_user)>>),
               TRUE, Append(users, new_user))

CreateUser(users, params) ==
    IF ~UserValidates(params)
    THEN Outcome(TRUE, NoFragment, FALSE, users)
    ELSE LET new_user == NewUser(users, params)
         IN Outcome(FALSE,
                    Fragment("CreateUserResponse", "true", "", "",
                             <<user_to_xml(new_user)>>),
                    TRUE, Append(users, new_user))

\* The record at the first matching position with the supplied fields
\* overwritten.
Updated(u, params) ==
    User(u.id,
         IF Has(params, "name") THEN params["name"] ELSE u.name,
         IF Has(params, "email") THEN params["email"] ELSE u.email,
         IF Has(params, "age") THEN params["age"] ELSE u.age)

\* An update loop without its break: every record with the id is overwritten.
UpdateUser_all(users, params) ==
    IF Matches(users, params) # {}
    THEN LET i == FirstMatch(users, params)
             updated == [j \in 1..Len(users) |->
                            IF j \in Matches(users, params)
                            THEN Updated(users[j], params) ELSE users[j]]
         IN Outcome(FALSE,
                    Fragment("UpdateUserResponse", "true",
                             "User updated successfully", "",
                             <<user_to_xml(updated[i])>>),
                    TRUE, updated)
    ELSE Outcome(FALSE,
                 Fragment("UpdateUserResponse", "false", "", "User not found", <<>>),
                 FALSE, users)

\* An update that writes the list back and answers success without looking
\* at user_found.
UpdateUser_unchecked(users, params) ==
    LET updated == IF Matches(users, params) = {} THEN users
                   ELSE [users EXCEPT ![FirstMatch(users, params)] =
                            Updated(users[FirstMatch(users, params)], params)]
    IN Outcome(FALSE,
               Fragment("UpdateUserResponse", "true", "User updated successfully", "",
                        IF Matches(users, params) = {} THEN <<>>
                        ELSE <<user_to_xml(updated[FirstMatch(users, params)])>>),
               TRUE, updated)

UpdateUser(users, params) ==
    IF Matches(users, params) # {}
    THEN LET i == FirstMatch(users, params)
             updated == [users EXCEPT ![i] = Updated(users[i], params)]
         IN Outcome(FALSE,
                    Fragment("UpdateUserResponse", "true",
                             "User updated successfully", "",
                             <<user_to_xml(updated[i])>>),
                    TRUE, updated)
    ELSE Outcome(FALSE,
                 Fragment("UpdateUserResponse", "false", "", "User not found", <<>>),
                 FALSE, users)

\* users = [u for u in users if u.id != user_id]
\* The filter keeping the named records instead of the others.
Remaining_inverted(users, params) ==
    LET keep(u) == IdIs(u, params) IN SelectSeq(users, keep)

\* Only the first record with the id removed (list.remove of the first match).
Remaining_first(users, params) ==
    IF Matches(users, params) = {} THEN users
    ELSE LET i == FirstMatch(users, params)
         IN SubSeq(users, 1, i - 1) \o SubSeq(users, i + 1, Len(users))

Remaining(users, params) ==
    LET keep(u) == ~IdIs(u, params) IN SelectSeq(users, keep)

\* A delete that answers "User not found" when no record has the id.
DeleteUser_strict(users, params) ==
    IF Matches(users, params) = {}
    THEN Outcome(FALSE,
                 Fragment("DeleteUserResponse", "false", "", "User not found", <<>>),
                 FALSE, users)
    ELSE Outcome(FALSE,
                 Fragment("DeleteUserResponse", "true", "User deleted successfully",
                          "", <<>>),
                 TRUE, Remaining(users, params))

DeleteUser(users, params) ==
    Outcome(FALSE,
            Fragment("DeleteUserResponse", "true", "User deleted successfully", "",
                     <<>>),
            TRUE, Remaining(users, params))

UnknownOperation ==
    Outcome(FALSE, Fragment("Error", "", "Unknown operation", "", <<>>), FALSE, <<>>)

\* The if / elif chain of soap_endpoint on the parsed request; `stored` is
\* what read_users finds when the branch runs.
Dispatch(soap_data, stored) ==
    LET operation == soap_data.operation
        params == soap_data.params
        users == read_users(stored)
    IN CASE operation = "GetAllUsers" -> GetAllUsers(users, params)
         [] operation = "GetUser" -> GetUser(users, params)
         [] operation = "CreateUser" -> CreateUser(users, params)
         [] operation = "UpdateUser" -> UpdateUser(users, params)
         [] operation = "DeleteUser" -> DeleteUser(users, params)
         [] OTHER -> UnknownOperation

\* read_users hoisted above the if / elif chain: called for every request.
CallsReadUsers_always(operation) == TRUE

\* Each of the five operation branches calls read_users; the else branch
\* does not.
CallsReadUsers(operation) == operation \in Operations

\* The HTTP response for an outcome.
Reply(out) ==
    IF out.raised THEN InternalServerError
    ELSE FastAPIResponse(create_soap_response(out.fragment))

\* ------------------------------------------------------------------- state
VARIABLES
    file,       \* users.json: the stored sequence of user records
    pc,         \* per worker: "idle", "received", "loaded" (between read_users
                \* and write_users) or "answered"
    req,        \* per worker: the payload of the request it is handling
    loaded,     \* per worker: the list read_users returned to it
    out,        \* per worker: the outcome its branch computed from that list
    resp,       \* per worker: the HTTP response it returned
    mark,       \* per id: "created" / "deleted" by the last completed create or delete of it
    last,       \* the latest successful CreateUser: the id it returned, its payload,
                \* and whether a later update or delete named that id
    fromEmpty,  \* the service started on an empty users.json
    stale,      \* some request wrote a list computed from a superseded read
    rejected    \* followed where rejected creates are studied: the id the latest
                \* rejected CreateUser had computed, whether a DeleteUser has
                \* since removed the record with the largest id, and whether a
                \* successful CreateUser has followed

vars == <<file, pc, req, loaded, out, resp, mark, last, fromEmpty, stale, rejected>>

Workers == {1, 2}

NoXml == Xml(NoTag, Absent, Absent, Absent, Absent)
NoResponse == [status |-> 0, media_type |-> "", content |-> [envelope |-> "", body |-> NoFragment]]
NoOutcome == Outcome(FALSE, NoFragment, FALSE, <<>>)
NoCreate == [id |-> 0, xml |-> NoXml, touched |-> FALSE]
NoRejection == [id |-> 0, cut |-> FALSE, served |-> FALSE]

\* users.json as found at startup: init_db creates it empty only when it is
\* absent, so a file left by an earlier run or written by hand is kept as
\* it is, whatever ids it holds.
InitFiles ==
    {<<>>,
     <<User(1, "ana", "a@x", 30), User(1, "leo", "l@x", 25)>>}

InitWith(files) ==
    /\ file \in files
    /\ pc = [w \in Workers |-> "idle"]
    /\ req = [w \in Workers |-> NoXml]
    /\ loaded = [w \in Workers |-> <<>>]
    /\ out = [w \in Workers |-> NoOutcome]
    /\ resp = [w \in Workers |-> NoResponse]
    /\ mark = [i \in AllIds |-> "none"]
    /\ last = NoCreate
    /\ fromEmpty = (file = <<>>)
    /\ stale = FALSE
    /\ rejected = NoRejection

Init == InitWith(InitFiles)

\* The id a successful CreateUser response carries.
CreatedId(r) == r.content.body.users[1].id

IsCreated(xml, r) ==
    xml.tag = "CreateUser" /\ r.status = 200 /\ r.content.body.success = "true"

\* The request names id k and changed or removed stored records.
Touches(xml, r, k) ==
    /\ xml.tag \in {"UpdateUser", "DeleteUser"}
    /\ r.status = 200 /\ r.content.body.success = "true"
    /\ IdIs([id |-> k], parse_soap_request(xml).params)

\* What the clients have seen once the request with payload xml is answered
\* with r.
Observed(xml, r) ==
    LET params == parse_soap_request(xml).params
    IN /\ mark' = IF IsCreated(xml, r)
                  THEN [mark EXCEPT ![CreatedId(r)] = "created"]
                  ELSE IF xml.tag = "DeleteUser" /\ r.status = 200 /\ Has(params, "id")
                  THEN [mark EXCEPT ![params["id"]] = "deleted"]
                  ELSE mark
       /\ last' = IF IsCreated(xml, r)
                  THEN [id |-> CreatedId(r), xml |-> xml, touched |-> FALSE]
                  ELSE IF Touches(xml, r, last.id)
                  THEN [id |-> last.id, xml |-> NoXml, touched |-> TRUE]
                  ELSE last

\* CreateUser is taken only while the id it assigns stays within MaxId.
InBounds(xml, stored) ==
    xml.tag = "CreateUser" => NewId(stored) <= MaxId

\* body = await request.body(): worker w holds a request's payload.
Receive(w, xml) ==
    /\ pc[w] = "idle"
    /\ InBounds(xml, file)
    /\ pc' = [pc EXCEPT ![w] = "received"]
    /\ req' = [req EXCEPT ![w] = xml]
    /\ UNCHANGED <<file, loaded, out, resp, mark, last, fromEmpty, stale, rejected>>

\* The rest of soap_endpoint, from parse_soap_request to the return, run
\* with no other request in between: parse, dispatch on the stored list,
\* write_users when the branch calls it, answer.
Handled(w) ==
    LET o == Dispatch(parse_soap_request(req[w]), file)
    IN /\ pc[w] = "received"
       /\ file' = IF o.writes THEN write_users(o.users) ELSE file
       /\ loaded' = IF CallsReadUsers(parse_soap_request(req[w]).operation)
                    THEN [loaded EXCEPT ![w] = read_users(file)]
                    ELSE loaded
       /\ out' = [out EXCEPT ![w] = o]
       /\ resp' = [resp EXCEPT ![w] = Reply(o)]
       /\ pc' = [pc EXCEPT ![w] = "answered"]
       /\ Observed(req[w], Reply(o))
       /\ UNCHANGED <<req, fromEmpty, stale>>

soap_endpoint(w) == Handled(w) /\ UNCHANGED rejected

\* The response has gone to the client; the worker takes the next request.
Release(w) ==
    /\ pc[w] = "answered"
    /\ pc' = [pc EXCEPT ![w] = "idle"]
    /\ req' = [req EXCEPT ![w] = NoXml]
    /\ loaded' = [loaded EXCEPT ![w] = <<>>]
    /\ out' = [out EXCEPT ![w] = NoOutcome]
    /\ resp' = [resp EXCEPT ![w] = NoResponse]
    /\ UNCHANGED <<file, mark, last, fromEmpty, stale, rejected>>

\* ------------------------------------------- requests one after another
\* One request is in flight at a time: it is received, handled to its
\* answer, and only then is the next received.
ReceiveRequest == \E xml \in Payloads : Receive(1, xml)

GetAllUsersRequest ==
    /\ req[1].tag = "GetAllUsers"
    /\ soap_endpoint(1)

GetUserRequest ==
    /\ req[1].tag = "GetUser"
    /\ soap_endpoint(1)

CreateUserRequest ==
    /\ req[1].tag = "CreateUser"
    /\ soap_endpoint(1)

UpdateUserRequest ==
    /\ req[1].tag = "UpdateUser"
    /\ soap_endpoint(1)

DeleteUserRequest ==
    /\ req[1].tag = "DeleteUser"
    /\ soap_endpoint(1)

UnknownRequest ==
    /\ req[1].tag \notin Operations
    /\ soap_endpoint(1)

ReleaseRequest == Release(1)

Next ==
    \/ ReceiveRequest
    \/ GetAllUsersRequest
    \/ GetUserRequest
    \/ CreateUserRequest
    \/ UpdateUserRequest
    \/ DeleteUserRequest
    \/ UnknownRequest
    \/ ReleaseRequest

Spec == Init /\ [][Next]_vars

\* --------------------------------------- requests in several processes
\* Several server processes (or threads) serve POST /soap on one
\* users.json: each runs its handler in order, but read_users and
\* write_users of different requests interleave, since nothing locks the
\* file. A request that calls write_users does so in a later step than its
\* read_users.
ConcPayloads ==
    {Xml("CreateUser", Absent, Txt(p[1]), Txt(p[2]), Num(p[3])) : p \in People}
    \cup {Xml("UpdateUser", Num(1), Txt("leo"), Absent, Absent),
          Xml("DeleteUser", Num(1), Absent, Absent, Absent),
          Xml("GetAllUsers", Absent, Absent, Absent, Absent)}

InitConc == InitWith({<<>>})

ReceiveConc(w) == \E xml \in ConcPayloads : Receive(w, xml)

\* parse_soap_request, read_users and the branch up to its write_users call;
\* a branch that does not call write_users runs to its return.
Load(w) ==
    LET o == Dispatch(parse_soap_request(req[w]), file)
    IN /\ pc[w] = "received"
       /\ InBounds(req[w], file)
       /\ loaded' = IF CallsReadUsers(parse_soap_request(req[w]).operation)
                    THEN [loaded EXCEPT ![w] = read_users(file)]
                    ELSE loaded
       /\ out' = [out EXCEPT ![w] = o]
       /\ IF o.writes
          THEN /\ pc' = [pc EXCEPT ![w] = "loaded"]
               /\ UNCHANGED <<resp, mark, last>>
          ELSE /\ pc' = [pc EXCEPT ![w] = "answered"]
               /\ resp' = [resp EXCEPT ![w] = Reply(o)]
               /\ Observed(req[w], Reply(o))
       /\ UNCHANGED <<file, req, fromEmpty, stale, rejected>>

\* write_users(users) and the return: the list computed from the earlier
\* read replaces whatever the file holds now.
Store(w) ==
    /\ pc[w] = "loaded"
    /\ file' = write_users(out[w].users)
    /\ resp' = [resp EXCEPT ![w] = Reply(out[w])]
    /\ pc' = [pc EXCEPT ![w] = "answered"]
    /\ stale' = (stale \/ file # loaded[w])
    /\ Observed(req[w], Reply(out[w]))
    /\ UNCHANGED <<req, loaded, out, fromEmpty, rejected>>

NextConc ==
    \E w \in Workers :
        \/ ReceiveConc(w)
        \/ Load(w)
        \/ Store(w)
        \/ Release(w)

SpecConc == InitConc /\ [][NextConc]_vars

\* The service started with no users.json: init_db wrote the empty list.
InitEmpty == InitWith({<<>>})

\* -------------------------------------- requests on one event loop
\* One server process: soap_endpoint is a coroutine whose only await is
\* request.body(), so several requests can be waiting with their payload
\* received, and each runs from parse_soap_request to its return, blocking
\* read_users and write_users included, before the loop runs another.
ReceiveLoop(w) == \E xml \in ConcPayloads : Receive(w, xml)

HandleLoop(w) ==
    /\ InBounds(req[w], file)
    /\ soap_endpoint(w)

ReleaseLoop(w) == Release(w)

NextLoop ==
    \E w \in Workers :
        \/ ReceiveLoop(w)
        \/ HandleLoop(w)
        \/ ReleaseLoop(w)

SpecLoop == InitEmpty /\ [][NextLoop]_vars

\* ------------------------------------------------- rejected creates
\* Requests one after another, as in Spec, on the payloads that matter to a
\* rejected CreateUser, with the id it had computed followed in `rejected`.
RejectPayloads ==
    {Xml("CreateUser", Absent, Txt(p[1]), Txt(p[2]), Num(p[3])) : p \in People}
    \cup {Xml("CreateUser", Absent, Txt("ana"), Absent, Num(30)),
          Xml("CreateUser", Absent, Txt("ana"), Txt("a@x"), Absent),
          Xml("CreateUser", Absent, Absent, Txt("a@x"), Bad),
          Xml("UpdateUser", Num(1), Txt("leo"), Absent, Absent),
          Xml("GetAllUsers", Absent, Absent, Absent, Absent),
          Xml(NoTag, Absent, Absent, Absent, Absent)}
    \cup {Xml(t, Num(i), Absent, Absent, Absent) :
            t \in {"GetUser", "DeleteUser"}, i \in AllIds}

\* new_id is computed before User(...) raises; the next successful
\* CreateUser ends the wait for it.
TrackRejection(w) ==
    LET o == Dispatch(parse_soap_request(req[w]), file)
    IN rejected' =
          IF req[w].tag = "CreateUser" /\ o.raised
          THEN [id |-> NewId(read_users(file)), cut |-> FALSE, served |-> FALSE]
          ELSE IF req[w].tag = "CreateUser" /\ rejected.id # 0
          THEN [rejected EXCEPT !.served = TRUE]
          ELSE IF /\ req[w].tag = "DeleteUser"
                  /\ rejected.id # 0 /\ ~rejected.served
                  /\ MaxOf(Ids(o.users)) < MaxOf(Ids(file))
          THEN [rejected EXCEPT !.cut = TRUE]
          ELSE rejected

ReceiveReject == \E xml \in RejectPayloads : Receive(1, xml)

HandleReject ==
    /\ Handled(1)
    /\ TrackRejection(1)

ReleaseReject == Release(1)

NextReject ==
    \/ ReceiveReject
    \/ HandleReject
    \/ ReleaseReject

SpecReject == InitEmpty /\ [][NextReject]_vars

\* ------------------------------------------------------------ properties
Answered(w) == pc[w] = "answered"
Params(w) == parse_soap_request(req[w]).params
Body(w) == resp[w].content.body
Unique(users) == \A i, j \in 1..Len(users) : users[i].id = users[j].id => i = j

\* The step in which worker w answers a CreateUser request with success.
CreateAnswered(w) ==
    /\ pc[w] = "received" /\ pc'[w] = "answered"
    /\ IsCreated(req[w], resp'[w])

\* C1 (as stated): every successful CreateUser assigns one more than the
\* largest id stored just before it (1 on an empty collection), and the ids
\* of successive successful CreateUser requests strictly increase, whatever
\* requests come in between.
C1_AsStated ==
    [][\A w \in Workers : CreateAnswered(w) =>
          /\ CreatedId(resp'[w]) = MaxOf(Ids(file)) + 1
          /\ last.id # 0 => CreatedId(resp'[w]) > last.id]_vars

\* C1 (amended): every successful CreateUser assigns one more than the
\* largest id stored just before it (1 on an empty collection), and it
\* assigns more than the previous successful CreateUser did unless a
\* DeleteUser of that previous id completed in between.
C1_NextIdIsMaxPlusOne ==
    [][\A w \in Workers : CreateAnswered(w) =>
          /\ CreatedId(resp'[w]) = MaxOf(Ids(file)) + 1
          /\ (last.id # 0 /\ mark[last.id] # "deleted")
                => CreatedId(resp'[w]) > last.id]_vars

\* A second CreateUser answered with id 2 while the record of the first is
\* still stored.
C1_Witness ==
    \E w \in Workers :
        /\ Answered(w) /\ IsCreated(req[w], resp[w])
        /\ CreatedId(resp[w]) = 2
        /\ 1 \in Ids(loaded[w]) /\ mark[1] = "created"

\* C2: started on an empty collection and with requests handled one at a
\* time, the stored collection never holds two records with one id, and every
\* stored id is a positive integer.
C2_UniquePositiveIds ==
    fromEmpty => /\ Unique(file)
                 /\ \A i \in 1..Len(file) : file[i].id \in Nat /\ file[i].id >= 1

\* Records created, one of them deleted again, the other still stored.
C2_Witness ==
    /\ fromEmpty /\ Ids(file) = {2}
    /\ mark[1] = "deleted" /\ mark[2] = "created"

\* C4 (as stated): every POST /soap request, whatever its payload and the
\* stored collection, is answered with HTTP 200 and an envelope-wrapped
\* fragment.
C4_AsStated ==
    \A w \in Workers : Answered(w) =>
        /\ resp[w].status = 200
        /\ resp[w].content.envelope = "soap:Envelope"

\* C5 (as stated): a CreateUser request lacking any of name, email or age is
\* accepted: the response reports success with the created record, which has
\* the next id and the supplied fields, and that record is appended to the
\* stored collection.
C5_AsStated ==
    \A w \in Workers :
        (/\ Answered(w) /\ req[w].tag = "CreateUser"
         /\ ~({"name", "email", "age"} \subseteq DOMAIN Params(w)))
        => /\ resp[w].status = 200
           /\ Body(w).success = "true"
           /\ Len(Body(w).users) = 1
           /\ Len(file) = Len(loaded[w]) + 1
           /\ SubSeq(file, 1, Len(loaded[w])) = loaded[w]
           /\ file[Len(file)].id = MaxOf(Ids(loaded[w])) + 1
           /\ Body(w).users[1].id = file[Len(file)].id
           /\ \A k \in DOMAIN Params(w) \cap {"name", "email", "age"} :
                  file[Len(file)][k] = Params(w)[k]

\* The ids answered by a CreateUser and not named by a later DeleteUser.
CreatedNotDeleted == {i \in AllIds : mark[i] = "created"}

\* C6: started on an empty collection and with requests handled one at a
\* time, GetAllUsers returns exactly one record for each id that a CreateUser
\* returned and no later DeleteUser named, whatever updates came in between.
C6_GetAllIsCreatesMinusDeletes ==
    \A w \in Workers :
        (fromEmpty /\ Answered(w) /\ req[w].tag = "GetAllUsers")
        => /\ resp[w].status = 200
           /\ {Body(w).users[i].id : i \in 1..Len(Body(w).users)} = CreatedNotDeleted
           /\ Len(Body(w).users) = Cardinality(CreatedNotDeleted)

\* GetAllUsers answered with a record after a create, a delete and an update
\* of the latest created record.
C6_Witness ==
    \E w \in Workers :
        /\ fromEmpty /\ Answered(w) /\ req[w].tag = "GetAllUsers"
        /\ Len(Body(w).users) = 1
        /\ \E i \in AllIds : mark[i] = "deleted"
        /\ last.touched

\* The latest successful CreateUser supplied name, email and age, and no
\* update or delete has named its id since.
LastCreateIntact ==
    /\ last.id # 0 /\ ~last.touched
    /\ last.xml.name # Absent /\ last.xml.email # Absent /\ last.xml.age # Absent

\* C7: GetUser(k), for the id k the latest CreateUser returned and with no
\* update or delete of k in between, returns the record with id k and exactly
\* the name, email and age that CreateUser request supplied.
C7_GetAfterCreate ==
    \A w \in Workers :
        (/\ Answered(w) /\ req[w].tag = "GetUser"
         /\ LastCreateIntact
         /\ req[w].id = Num(last.id))
        => /\ resp[w].status = 200
           /\ Body(w).error = ""
           /\ Len(Body(w).users) = 1
           /\ Body(w).users[1].id = last.id
           /\ Body(w).users[1].name = last.xml.name[2]
           /\ Body(w).users[1].email = last.xml.email[2]
           /\ Body(w).users[1].age = last.xml.age[2]

\* GetUser answered for the id of the latest create, a second record.
C7_Witness ==
    \E w \in Workers :
        /\ Answered(w) /\ req[w].tag = "GetUser"
        /\ LastCreateIntact
        /\ req[w].id = Num(last.id)
        /\ last.id = 2

\* The positions of the loaded list holding the id the request names.
Named(w) ==
    {i \in 1..Len(loaded[w]) :
        "id" \in DOMAIN Params(w) /\ loaded[w][i].id = Params(w)["id"]}

\* C8: UpdateUser on an existing id overwrites, on the first record with that
\* id, exactly the fields the request supplies (each of name, email, age takes
\* the supplied value if supplied and keeps its value otherwise, the id is
\* kept), and the response carries the record as stored.
C8_UpdateOverwritesSuppliedOnly ==
    \A w \in Workers :
        (Answered(w) /\ req[w].tag = "UpdateUser" /\ Named(w) # {})
        => LET i == CHOOSE n \in Named(w) : \A m \in Named(w) : n <= m
           IN /\ resp[w].status = 200
              /\ Body(w).success = "true"
              /\ Len(file) = Len(loaded[w])
              /\ file[i].id = loaded[w][i].id
              /\ \A k \in {"name", "email", "age"} :
                     file[i][k] = IF k \in DOMAIN Params(w) THEN Params(w)[k]
                                  ELSE loaded[w][i][k]
              /\ Body(w).users = <<user_to_xml(file[i])>>

\* UpdateUser with only name supplied, answered after changing the name of the
\* first of two records with the id.
C8_Witness ==
    \E w \in Workers :
        /\ Answered(w) /\ req[w].tag = "UpdateUser"
        /\ DOMAIN Params(w) = {"id", "name"}
        /\ Cardinality(Named(w)) = 2
        /\ file[1].name # loaded[w][1].name
        /\ file[1].email = loaded[w][1].email

\* C9: GetUser(id), once a DeleteUser(id) has completed and no CreateUser has
\* been answered with that id since, returns the "User not found" fragment.
C9_GetAfterDeleteNotFound ==
    \A w \in Workers :
        (/\ Answered(w) /\ req[w].tag = "GetUser"
         /\ "id" \in DOMAIN Params(w)
         /\ mark[Params(w)["id"]] = "deleted")
        => /\ resp[w].status = 200
           /\ Body(w).error = "User not found"
           /\ Body(w).users = <<>>

\* GetUser(1) answered after DeleteUser(1) on a collection that held two
\* records with id 1.
C9_Witness ==
    \E w \in Workers :
        /\ Answered(w) /\ req[w].tag = "GetUser"
        /\ ~fromEmpty
        /\ req[w].id = Num(1) /\ mark[1] = "deleted"

\* C10: DeleteUser always answers with the success fragment, and when no
\* stored record has the given id the stored collection keeps the same records
\* in the same order.
C10_DeleteAlwaysSucceeds ==
    \A w \in Workers :
        (Answered(w) /\ req[w].tag = "DeleteUser")
        => /\ resp[w].status = 200
           /\ Body(w).tag = "DeleteUserResponse"
           /\ Body(w).success = "true"
           /\ Body(w).message = "User deleted successfully"
           /\ Body(w).error = ""
           /\ Named(w) = {} => file = loaded[w]

\* DeleteUser answered for an id no record of a non-empty collection has.
C10_Witness ==
    \E w \in Workers :
        /\ Answered(w) /\ req[w].tag = "DeleteUser"
        /\ req[w].id = Num(2)
        /\ Len(loaded[w]) > 0 /\ Named(w) = {}
        /\ file = loaded[w]

\* A CreateUser was answered with an id, no DeleteUser of that id has
\* completed since, and no stored record has the id.
LostUpdate == \E i \in AllIds : mark[i] = "created" /\ i \notin Ids(file)

\* C3: with mutating requests handled concurrently, the effect of a completed
\* request can be missing from the stored collection, and it goes missing
\* only where load-mutate-save cycles interleaved: some request wrote a list
\* computed from a read that another write had superseded.
C3_LostUpdateByInterleaving == LostUpdate => stale

\* The record of an answered CreateUser is missing after a concurrent
\* request wrote over it.
C3_Witness == LostUpdate /\ stale

\* Two concurrent CreateUser requests that loaded the same list hold the same
\* next id.
SameIdTwice ==
    \E w, v \in Workers :
        /\ w # v /\ Answered(w) /\ Answered(v)
        /\ IsCreated(req[w], resp[w]) /\ IsCreated(req[v], resp[v])
        /\ CreatedId(resp[w]) = CreatedId(resp[v])

\* Every stored list is one loaded list with a record of a larger id
\* appended, a record updated in place, or records filtered out.
StoredIdsUnique == Unique(file)

\* C11: UpdateUser with an id that no stored record has answers success=false
\* with the "User not found" error, calls write_users not at all and leaves the
\* stored collection as it was.
C11_UpdateMissNotFound ==
    \A w \in Workers :
        (Answered(w) /\ req[w].tag = "UpdateUser" /\ Named(w) = {})
        => /\ resp[w].status = 200
           /\ resp[w].content.envelope = "soap:Envelope"
           /\ Body(w).tag = "UpdateUserResponse"
           /\ Body(w).success = "false"
           /\ Body(w).error = "User not found"
           /\ Body(w).users = <<>>
           /\ ~out[w].writes
           /\ file = loaded[w]

\* UpdateUser(2) with a new name answered on a non-empty collection that has
\* no record with id 2.
C11_Witness ==
    \E w \in Workers :
        /\ Answered(w) /\ req[w].tag = "UpdateUser"
        /\ req[w].id = Num(2) /\ req[w].name # Absent
        /\ Len(loaded[w]) > 0 /\ Named(w) = {}
        /\ Body(w).success = "false"

\* The step in which worker w answers a request whose payload has no
\* <...Request> tag or one that names none of the five operations.
UnknownAnswered(w) ==
    /\ pc[w] = "received" /\ pc'[w] = "answered"
    /\ req[w].tag \notin Operations

\* C12: a payload with no <...Request> tag, or with one naming none of the
\* five operations, is answered with exactly the "Unknown operation" error
\* fragment in the usual envelope, and the stored collection is neither read
\* nor written.
C12_UnknownOperation ==
    [][\A w \in Workers : UnknownAnswered(w) =>
          /\ resp'[w].status = 200
          /\ resp'[w].media_type = "text/xml"
          /\ resp'[w].content.envelope = "soap:Envelope"
          /\ resp'[w].content.body =
                [tag |-> "Error", success |-> "", message |-> "Unknown operation",
                 error |-> "", users |-> <<>>]
          /\ loaded'[w] = loaded[w]
          /\ ~out'[w].writes
          /\ file' = file]_vars

\* A payload without a Request tag answered while records are stored.
C12_Witness ==
    \E w \in Workers :
        /\ Answered(w) /\ req[w].tag = NoTag
        /\ Len(file) > 0 /\ loaded[w] = <<>>
        /\ Body(w).message = "Unknown operation"

\* C13: a request whose id element is absent or not a number is parsed
\* without error and with no id parameter, and it matches no record of any
\* stored collection: GetUser answers "User not found", UpdateUser answers
\* success=false and DeleteUser answers success, each leaving the stored
\* collection with the same records in the same order.
C13_MissingIdMatchesNothing ==
    \A w \in Workers :
        (/\ Answered(w)
         /\ req[w].tag \in {"GetUser", "UpdateUser", "DeleteUser"}
         /\ req[w].id \in {Absent, Bad})
        => /\ "id" \notin DOMAIN Params(w)
           /\ resp[w].status = 200
           /\ file = loaded[w]
           /\ req[w].tag = "GetUser" =>
                 Body(w).error = "User not found" /\ Body(w).users = <<>>
           /\ req[w].tag = "UpdateUser" =>
                 Body(w).success = "false" /\ Body(w).error = "User not found"
           /\ req[w].tag = "DeleteUser" =>
                 Body(w).success = "true" /\ Body(w).error = ""

\* DeleteUser with a non-numeric id answered on a non-empty collection.
C13_Witness ==
    \E w \in Workers :
        /\ Answered(w) /\ req[w].tag = "DeleteUser" /\ req[w].id = Bad
        /\ Len(loaded[w]) > 0 /\ file = loaded[w]
        /\ Body(w).success = "true"

\* C14: GetAllUsers and GetUser never change the stored collection: after
\* either, with any parameters, it holds the records it held before, in the
\* same order, and write_users was not called.
C14_ReadsLeaveStoreAlone ==
    \A w \in Workers :
        (Answered(w) /\ req[w].tag \in {"GetAllUsers", "GetUser"})
        => /\ file = loaded[w]
           /\ ~out[w].writes

\* GetUser answered with a record found in a stored collection of two.
C14_Witness ==
    \E w \in Workers :
        /\ Answered(w) /\ req[w].tag = "GetUser"
        /\ Len(Body(w).users) = 1
        /\ Len(loaded[w]) = 2 /\ file = loaded[w]

\* The positions of the loaded list that do not hold the id the request names.
Others(w) == (1..Len(loaded[w])) \ Named(w)

\* C15: each mutating request touches only its target. CreateUser appends the
\* new record after the existing ones, which keep their values and order;
\* UpdateUser changes no record but the first with the given id and moves
\* none; DeleteUser removes the records with the given id and keeps the others
\* in their order.
C15_MutationsTouchOnlyTarget ==
    \A w \in Workers : Answered(w) =>
        /\ IsCreated(req[w], resp[w]) =>
              /\ Len(file) = Len(loaded[w]) + 1
              /\ \A i \in 1..Len(loaded[w]) : file[i] = loaded[w][i]
              /\ user_to_xml(file[Len(file)]) = Body(w).users[1]
        /\ req[w].tag = "UpdateUser" =>
              /\ Len(file) = Len(loaded[w])
              /\ \A i \in 1..Len(loaded[w]) :
                    (\E n \in Named(w) : n < i) \/ i \notin Named(w)
                        => file[i] = loaded[w][i]
        /\ req[w].tag = "DeleteUser" =>
              /\ Len(file) = Cardinality(Others(w))
              /\ \A i \in Others(w) :
                    file[Cardinality({j \in Others(w) : j <= i})] = loaded[w][i]

\* UpdateUser answered after changing the first of two records with the id
\* and not the second.
C15_Witness ==
    \E w \in Workers :
        /\ Answered(w) /\ req[w].tag = "UpdateUser"
        /\ Named(w) = {1, 2}
        /\ file[1] # loaded[w][1]
        /\ file[2] = loaded[w][2]

\* The step in which worker w answers a CreateUser request whose payload
\* yields no email or no age parameter.
IncompleteCreateAnswered(w) ==
    /\ pc[w] = "received" /\ pc'[w] = "answered"
    /\ req[w].tag = "CreateUser"
    /\ ~({"email", "age"} \subseteq DOMAIN Params(w))

\* C16 (as stated): a CreateUser without email or age is rejected before
\* anything is written, the stored collection is unchanged, and the id it
\* had computed is the id of the next successful CreateUser, whatever
\* requests come in between.
C16_AsStated ==
    [][\A w \in Workers :
          /\ IncompleteCreateAnswered(w) =>
                /\ resp'[w].status = 500
                /\ ~out'[w].writes
                /\ file' = file
          /\ (CreateAnswered(w) /\ rejected.id # 0 /\ ~rejected.served) =>
                CreatedId(resp'[w]) = rejected.id]_vars

\* C16 (amended): a CreateUser without email or age is rejected before
\* anything is written, the stored collection is unchanged, and the id it
\* had computed is the id of the next successful CreateUser unless a
\* DeleteUser removed the record with the largest id in between.
C16_RejectedCreateWritesNothing ==
    [][\A w \in Workers :
          /\ IncompleteCreateAnswered(w) =>
                /\ resp'[w].status = 500
                /\ ~out'[w].writes
                /\ file' = file
          /\ (/\ CreateAnswered(w)
              /\ rejected.id # 0 /\ ~rejected.served /\ ~rejected.cut) =>
                CreatedId(resp'[w]) = rejected.id]_vars

\* A CreateUser answered with id 2, the id the rejected CreateUser before it
\* had computed.
C16_Witness ==
    \E w \in Workers :
        /\ Answered(w) /\ IsCreated(req[w], resp[w])
        /\ CreatedId(resp[w]) = 2
        /\ rejected = [id |-> 2, cut |-> FALSE, served |-> TRUE]
        /\ file = Append(loaded[w], file[Len(file)])

\* A DeleteUser of an id completed, no CreateUser has been answered with the
\* id since, and a record with the id is stored.
LostDelete == \E i \in AllIds : mark[i] = "deleted" /\ i \in Ids(file)

\* C17: with the requests of one event loop, where nothing runs between a
\* handler's read_users and its write_users, stored ids stay unique and no
\* completed create or delete is lost, however the requests in flight are
\* ordered.
C17_EventLoopNoRace ==
    /\ Unique(file)
    /\ ~LostUpdate
    /\ ~LostDelete
    /\ \A w \in Workers : pc[w] # "loaded"

\* A CreateUser answered with id 2 while another CreateUser, received before
\* it ran, is still waiting.
C17_Witness ==
    \E w, v \in Workers :
        /\ w # v
        /\ Answered(w) /\ IsCreated(req[w], resp[w]) /\ CreatedId(resp[w]) = 2
        /\ pc[v] = "received" /\ req[v].tag = "CreateUser"

====
